---- MODULE Spec2Model ----
(***************************************************************************)
(* Fantrove Console API: a stateless Cloudflare Worker that relays console *)
(* log entries to a Supabase REST backend.  The repository holds two       *)
(* variants of the worker, src/worker.js and src/unnamed/part_000; the     *)
(* variable impl says which one is deployed.                               *)
(*                                                                         *)
(* One request is in flight at a time (the worker keeps no state between   *)
(* requests).  An action is one synchronous run of the code between two    *)
(* awaits: the router with the handler up to its first backend fetch, and  *)
(* the handler's continuation when a backend fetch settles.                *)
(***************************************************************************)
EXTENDS Integers, Sequences, FiniteSets

\* ---------------------------------------------------------------- bounds

\* arrays of at most this many entries are explored with every content,
\* every backend answer per entry and every completion order
MaxInterleaved == 3
\* arrays run up to this many entries past the batch limit
MaxExcess == 2
\* longest text of the `limit` query parameter
MaxLimitLen == 4
\* longest text of the `offset` query parameter
MaxOffsetLen == 2

\* ------------------------------------------------------ program constants

BATCH_LIMIT == 100
DEFAULT_LIMIT == 100
MAX_LIMIT == 500
DEFAULT_OFFSET == 0

Impls == {"worker.js", "part_000"}

\* ---------------------------------------------------------------- headers

CORS_HEADERS(i) ==
  {<<"Access-Control-Allow-Origin", "*">>,
   <<"Access-Control-Allow-Methods", "GET, POST, OPTIONS">>,
   <<"Access-Control-Allow-Headers", "Content-Type, Authorization">>}
  \cup (IF i = "worker.js" THEN {<<"Access-Control-Max-Age", "86400">>} ELSE {})

\* ------------------------------------------------------------- JS helpers

\* values a JSON field can take: missing, the empty string, a non-empty string
FieldVals == {"absent", "empty", "text"}

\* JavaScript's !v for such a value
Falsy(v) == v \in {"absent", "empty"}

Min(a, b) == IF a < b THEN a ELSE b

Digits == {"0", "1", "5"}
Alphabet == Digits \cup {"-", "a"}

DigitVal(c) == CASE c = "0" -> 0 [] c = "1" -> 1 [] c = "5" -> 5

NaN == [nan |-> TRUE, val |-> 0]

RECURSIVE Accumulate(_, _, _)
\* the digits of s from position i on, read left to right until the first
\* character that is no digit
Accumulate(s, i, acc) ==
  IF i > Len(s) \/ s[i] \notin Digits THEN acc
  ELSE Accumulate(s, i + 1, acc * 10 + DigitVal(s[i]))

\* parseInt of the value searchParams.get returns: null when the parameter
\* is absent, its text otherwise
parseInt(p) ==
  IF ~p.present THEN NaN
  ELSE LET s == p.text
           neg == Len(s) > 0 /\ s[1] = "-"
           first == IF neg THEN 2 ELSE 1
       IN IF first > Len(s) \/ s[first] \notin Digits THEN NaN
          ELSE LET v == Accumulate(s, first, 0)
               IN [nan |-> FALSE, val |-> IF neg THEN 0 - v ELSE v]

\* n || d
OrDefault(n, d) == IF n.nan \/ n.val = 0 THEN d ELSE n.val

\* response.ok
Ok(status) == status >= 200 /\ status <= 299

\* ------------------------------------------------------------ the inbound
\* request

\* a query parameter: present with a text (a sequence of characters), or absent
Absent == [present |-> FALSE, text |-> <<>>]
Param(t) == [present |-> TRUE, text |-> t]

Texts(maxLen) == UNION {[1..n -> Alphabet] : n \in 0..maxLen}

LimitParams == {Absent} \cup {Param(t) : t \in Texts(MaxLimitLen)}
OffsetParams == {Absent} \cup {Param(t) : t \in Texts(MaxOffsetLen)}
SessionParams == {Absent, Param(<<>>), Param(<<"a">>)}

NoQuery == [session |-> Absent, limit |-> Absent, offset |-> Absent]

\* the queries sent: every limit alone, and every offset and session with a
\* limit that is absent, within the cap and beyond it
Queries ==
  {[NoQuery EXCEPT !.limit = l] : l \in LimitParams}
  \cup [session : SessionParams,
        limit : {Absent, Param(<<"5">>), Param(<<"5", "0", "1">>)},
        offset : OffsetParams]

\* a log entry as the client sends it; only the required fields matter here
Entry(l, m) == [level |-> l, message |-> m]
ValidEntry == Entry("text", "text")
Entries == {Entry(l, m) : l, m \in FieldVals}
BatchEntries == {ValidEntry, Entry("absent", "text"), Entry("text", "empty")}

\* body.logs: not there, null, a string, or an array of entries
NoLogs == [kind |-> "absent", items |-> <<>>]
Array(items) == [kind |-> "array", items |-> items]

\* lengths of the arrays sent: the short ones and those around the limit
ArrayLengths ==
  (0..MaxInterleaved) \cup ((BATCH_LIMIT - 1)..(BATCH_LIMIT + MaxExcess))

Arrays ==
  {Array(items) : items \in UNION {[1..n -> BatchEntries] : n \in 0..MaxInterleaved}}
  \cup {Array([i \in 1..n |-> ValidEntry]) : n \in ArrayLengths}

LogsFields ==
  {NoLogs, [kind |-> "null", items |-> <<>>], [kind |-> "string", items |-> <<>>]}
  \cup Arrays

\* the request body: text that is no JSON, or a JSON object
Body(json, l, m, logs) ==
  [json |-> json, level |-> l, message |-> m, logs |-> logs]
NoBody == Body("malformed", "absent", "absent", NoLogs)

LogBodies == {NoBody} \cup {Body("object", e.level, e.message, NoLogs) : e \in Entries}
BatchBodies == {NoBody} \cup {Body("object", "absent", "absent", f) : f \in LogsFields}

Methods == {"GET", "POST", "PUT", "DELETE", "OPTIONS"}
Paths == {"/health", "/logs", "/logs/batch", "/other"}

Request(m, p, q, b) == [method |-> m, path |-> p, query |-> q, body |-> b]
NoRequest == Request("none", "none", NoQuery, NoBody)

\* --------------------------------------------------------------- responses

NoMessage == [text |-> "", codes |-> <<>>, detail |-> ""]

Payload(kind) ==
  [kind |-> kind, error |-> NoMessage, total |-> 0, saved |-> 0, failed |-> 0]

NoResponse == [status |-> 0, headers |-> {}, body |-> Payload("none")]

\* new Response(body, {status, headers})
Response(body, status, headers) ==
  [status |-> status, headers |-> headers, body |-> body]

\* a formatter that forgets to spread CORS_HEADERS
jsonResponse_NoCors(i, data, status) ==
  Response(data, status, {<<"Content-Type", "application/json">>})

jsonResponse(i, data, status) ==
  Response(data, status,
           {<<"Content-Type", "application/json">>} \cup CORS_HEADERS(i))

\* the status jsonResponse gives when none is passed
DEFAULT_STATUS == 200

\* an Error's message: its fixed text, the status codes printed in it, and
\* whether the backend's body text follows
Message(text, codes, detail) == [text |-> text, codes |-> codes, detail |-> detail]

\* a catch that relays the backend's status
Caught_Relays(i, message) ==
  jsonResponse(i, [Payload("error") EXCEPT !.error = message],
               IF message.codes # <<>> THEN message.codes[1] ELSE 500)

\* the top-level catch of fetch: {error: error.message}, 500
Caught(i, message) ==
  jsonResponse(i, [Payload("error") EXCEPT !.error = message], 500)

\* -------------------------------------------------------------- the router

\* a switch whose batch case forgets the method
Route_BatchAnyMethod(i, method, path) ==
  IF i = "worker.js" /\ path = "/health" THEN "health"
  ELSE IF method = "GET" /\ path = "/logs" THEN "handleGetLogs"
  ELSE IF method = "POST" /\ path = "/logs" THEN "handlePostLog"
  ELSE IF path = "/logs/batch" THEN "handlePostBatch"
  ELSE IF method = "GET" /\ path = "/health" THEN "health"
  ELSE "default"

\* the handler the switch of fetch selects for a request that is no preflight
Route(i, method, path) ==
  IF i = "worker.js"
  THEN CASE path = "/health" -> "health"
         [] method = "GET" /\ path = "/logs" -> "handleGetLogs"
         [] method = "POST" /\ path = "/logs" -> "handlePostLog"
         [] method = "POST" /\ path = "/logs/batch" -> "handlePostBatch"
         [] OTHER -> "default"
  ELSE CASE method = "GET" /\ path = "/logs" -> "handleGetLogs"
         [] method = "POST" /\ path = "/logs" -> "handlePostLog"
         [] method = "POST" /\ path = "/logs/batch" -> "handlePostBatch"
         [] method = "GET" /\ path = "/health" -> "health"
         [] OTHER -> "default"

\* ------------------------------------------------------------- the backend

\* what a backend fetch settles to: a response with a status, or a rejection
\* (the network failed)
Delivered(status) == [delivered |-> TRUE, status |-> status]
NetworkFailure == [delivered |-> FALSE, status |-> 0]
Unanswered == [delivered |-> FALSE, status |-> -1]

ReadAnswers == {Delivered(200), Delivered(401), Delivered(500), NetworkFailure}
WriteAnswers == {Delivered(201), Delivered(401), Delivered(500), NetworkFailure}
InsertAnswers == {Delivered(201), Delivered(500), NetworkFailure}

\* a request sent to the backend
BackendRequest(op) ==
  [op |-> op, limit |-> 0, hasOffset |-> FALSE, offset |-> 0, filtered |-> FALSE,
   pos |-> 0, level |-> "absent", message |-> "absent", prefer |-> "none"]

\* a limit without its cap
ReadLimit_NoCap(q) == OrDefault(parseInt(q.limit), DEFAULT_LIMIT)

\* Math.min(parseInt(limit) || 100, 500)
ReadLimit(q) == Min(OrDefault(parseInt(q.limit), DEFAULT_LIMIT), MAX_LIMIT)

\* parseInt(offset) || 0
ReadOffset(q) == OrDefault(parseInt(q.offset), DEFAULT_OFFSET)

\* the query handleGetLogs builds; only part_000 reads and sends an offset
ReadQuery(i, q) ==
  [BackendRequest("read") EXCEPT
     !.limit = ReadLimit(q),
     !.hasOffset = (i = "part_000"),
     !.offset = IF i = "part_000" THEN ReadOffset(q) ELSE 0,
     !.filtered = q.session.present /\ q.session.text # <<>>]

\* the create request of handlePostLog and insertSingleLog for the entry at
\* array position pos (0 for the single write); a field that is undefined is
\* left out of the JSON sent
CreateRequest(pos, log, prefer) ==
  [BackendRequest("create") EXCEPT
     !.pos = pos, !.level = log.level, !.message = log.message,
     !.prefer = prefer]

\* a validation that forgets the message
MissingRequired_LevelOnly(body) == Falsy(body.level)

\* !body.level || !body.message
MissingRequired(body) == Falsy(body.level) \/ Falsy(body.message)

\* a guard without its Array.isArray test
InvalidLogs_NoArrayTest(i, logs) ==
  \/ logs.kind \in {"absent", "null"}
  \/ i = "part_000" /\ logs.kind = "array" /\ Len(logs.items) = 0

\* the guard of handlePostBatch: the stricter variant also refuses []
InvalidLogs(i, logs) ==
  \/ logs.kind \in {"absent", "null"}
  \/ logs.kind # "array"
  \/ i = "part_000" /\ Len(logs.items) = 0

\* a slice that forgets its end
Slice_NoCap(items, limit) == items

\* items.slice(0, limit)
Slice(items, limit) == SubSeq(items, 1, Min(Len(items), limit))

\* results.filter(r => r.status === st).length
CountStatus(results, st) ==
  Cardinality({k \in DOMAIN results : results[k] = st})

\* Promise.all in place of Promise.allSettled: the first rejection ends the wait
AllSettled_FailFast(results) ==
  (\E k \in DOMAIN results : results[k] = "rejected")
  \/ (\A k \in DOMAIN results : results[k] # "pending")

\* Promise.allSettled resolves: no promise is pending any more
AllSettled(results) == \A k \in DOMAIN results : results[k] # "pending"

\* the outcome of insertSingleLog once its fetch has settled to a
Settle(a) == IF a.delivered /\ Ok(a.status) THEN "fulfilled" ELSE "rejected"

\* a summary that filters the failures by a status no promise has
BatchSummary_WrongStatus(logs, results) ==
  [Payload("batch") EXCEPT
     !.total = Len(logs),
     !.saved = CountStatus(results, "fulfilled"),
     !.failed = CountStatus(results, "failed")]

\* the body handlePostBatch returns
BatchSummary(logs, results) ==
  [Payload("batch") EXCEPT
     !.total = Len(logs),
     !.saved = CountStatus(results, "fulfilled"),
     !.failed = CountStatus(results, "rejected")]

\* ------------------------------------------------------------------ state

VARIABLES
  impl,      \* the variant deployed
  pc,        \* where the worker is: idle, read, insert, batch, done
  request,   \* the inbound request being handled
  outbound,  \* the backend requests issued for it, in order
  answers,   \* what the backend answered to each, Unanswered until it does
  results,   \* the batch: the state of each insertSingleLog promise
  response   \* the response returned

vars == <<impl, pc, request, outbound, answers, results, response>>

Init ==
  /\ impl \in Impls
  /\ pc = "idle"
  /\ request = NoRequest
  /\ outbound = <<>>
  /\ answers = <<>>
  /\ results = <<>>
  /\ response = NoResponse

\* every request the model sends
Requests ==
  {Request(m, p, NoQuery, NoBody) : m \in Methods, p \in Paths}
  \cup {Request("GET", "/logs", q, NoBody) : q \in Queries}
  \cup {Request("POST", "/logs", NoQuery, b) : b \in LogBodies}
  \cup {Request("POST", "/logs/batch", NoQuery, b) : b \in BatchBodies}

\* the handler returns res without having called the backend
Return(r, res) ==
  /\ request' = r
  /\ response' = res
  /\ pc' = "done"
  /\ UNCHANGED <<impl, outbound, answers, results>>

\* the handler suspends on the backend requests reqs
Await(r, at, reqs) ==
  /\ request' = r
  /\ pc' = at
  /\ outbound' = reqs
  /\ answers' = [k \in DOMAIN reqs |-> Unanswered]
  /\ UNCHANGED <<impl, response>>

\* fetch, preflight
Options(r) ==
  /\ pc = "idle"
  /\ r.method = "OPTIONS"
  /\ Return(r, Response(Payload("empty"),
                        IF impl = "worker.js" THEN 204 ELSE 200,
                        CORS_HEADERS(impl)))

\* fetch, case /health
Health(r) ==
  /\ pc = "idle"
  /\ r.method # "OPTIONS"
  /\ Route(impl, r.method, r.path) = "health"
  /\ Return(r, jsonResponse(impl, Payload("health"), DEFAULT_STATUS))

\* fetch, default
NotFound(r) ==
  /\ pc = "idle"
  /\ r.method # "OPTIONS"
  /\ Route(impl, r.method, r.path) = "default"
  /\ Return(r, Response(Payload("Not Found"), 404, CORS_HEADERS(impl)))

\* handleGetLogs up to its fetch
GetLogs(r) ==
  /\ pc = "idle"
  /\ r.method # "OPTIONS"
  /\ Route(impl, r.method, r.path) = "handleGetLogs"
  /\ Await(r, "read", <<ReadQuery(impl, r.query)>>)
  /\ UNCHANGED results

\* handleGetLogs from its fetch on, with the catch of fetch
ReadSettles(a) ==
  /\ pc = "read"
  /\ answers' = <<a>>
  /\ response' =
       IF ~a.delivered
       THEN Caught(impl, Message("fetch failed", <<>>, ""))
       ELSE IF ~Ok(a.status)
       THEN Caught(impl, Message("Supabase error: ", <<a.status>>,
                                 IF impl = "part_000" THEN "text" ELSE ""))
       ELSE jsonResponse(impl, Payload("logs"), DEFAULT_STATUS)
  /\ pc' = "done"
  /\ UNCHANGED <<impl, request, outbound, results>>

\* handlePostLog up to its fetch
PostLog(r) ==
  /\ pc = "idle"
  /\ r.method # "OPTIONS"
  /\ Route(impl, r.method, r.path) = "handlePostLog"
  /\ IF r.body.json = "malformed"
     THEN Return(r, Caught(impl, Message("Unexpected token", <<>>, "")))
     ELSE IF MissingRequired(r.body)
     THEN Return(r, jsonResponse(impl,
                      [Payload("error") EXCEPT
                         !.error = Message(IF impl = "worker.js"
                                           THEN "Missing required fields"
                                           ELSE "Missing required fields: level, message",
                                           <<>>, "")],
                      400))
     ELSE /\ Await(r, "insert",
                   <<CreateRequest(0, r.body, "return=representation")>>)
          /\ UNCHANGED results

\* handlePostLog from its fetch on, with the catch of fetch
InsertSettles(a) ==
  /\ pc = "insert"
  /\ answers' = <<a>>
  /\ response' =
       IF ~a.delivered
       THEN Caught(impl, Message("fetch failed", <<>>, ""))
       ELSE IF ~Ok(a.status)
       THEN Caught(impl, Message("Supabase insert error: ", <<a.status>>, "text"))
       ELSE jsonResponse(impl, Payload("created"), 201)
  /\ pc' = "done"
  /\ UNCHANGED <<impl, request, outbound, results>>

\* handlePostBatch up to Promise.allSettled: every insertSingleLog runs to its
\* fetch before the handler suspends
PostBatch(r) ==
  /\ pc = "idle"
  /\ r.method # "OPTIONS"
  /\ Route(impl, r.method, r.path) = "handlePostBatch"
  /\ IF r.body.json = "malformed"
     THEN Return(r, Caught(impl, Message("Unexpected token", <<>>, "")))
     ELSE IF InvalidLogs(impl, r.body.logs)
     THEN Return(r, jsonResponse(impl,
                      [Payload("error") EXCEPT
                         !.error = Message(IF impl = "worker.js"
                                           THEN "Invalid logs array"
                                           ELSE "Missing or invalid logs array",
                                           <<>>, "")],
                      400))
     ELSE LET logs == Slice(r.body.logs.items, BATCH_LIMIT)
          IN /\ Await(r, "batch",
                      [k \in 1..Len(logs) |->
                         CreateRequest(k - 1, logs[k], "return=minimal")])
             /\ results' = [k \in 1..Len(logs) |-> "pending"]

\* the completions the model explores: every order and every answer for a
\* short array; for a long one the requests complete in array order and the
\* backend changes its answer only at the first two and the last
Explored(k, a) ==
  IF Len(results) <= MaxInterleaved THEN TRUE
  ELSE /\ \A j \in 1..(k - 1) : results[j] # "pending"
       /\ IF k \in {1, 2, Len(results)} THEN TRUE ELSE a = answers[k - 1]

\* insertSingleLog from its fetch on, for the entry at position k - 1
EntrySettles(k, a) ==
  /\ pc = "batch"
  /\ k \in DOMAIN results
  /\ results[k] = "pending"
  /\ Explored(k, a)
  /\ answers' = [answers EXCEPT ![k] = a]
  /\ results' = [results EXCEPT ![k] = Settle(a)]
  /\ UNCHANGED <<impl, pc, request, outbound, response>>

\* handlePostBatch from Promise.allSettled on
BatchCompose ==
  /\ pc = "batch"
  /\ AllSettled(results)
  /\ response' = jsonResponse(impl,
                   BatchSummary(Slice(request.body.logs.items, BATCH_LIMIT), results),
                   201)
  /\ pc' = "done"
  /\ UNCHANGED <<impl, request, outbound, answers, results>>

\* the response is out; the worker keeps nothing of the request
Recycle ==
  /\ pc = "done"
  /\ pc' = "idle"
  /\ request' = NoRequest
  /\ outbound' = <<>>
  /\ answers' = <<>>
  /\ results' = <<>>
  /\ response' = NoResponse
  /\ UNCHANGED impl

\* a request arrives only at an idle worker
Inbound == IF pc = "idle" THEN Requests ELSE {}

Next ==
  \/ \E r \in Inbound : Options(r)
  \/ \E r \in Inbound : Health(r)
  \/ \E r \in Inbound : NotFound(r)
  \/ \E r \in Inbound : GetLogs(r)
  \/ \E a \in ReadAnswers : ReadSettles(a)
  \/ \E r \in Inbound : PostLog(r)
  \/ \E a \in WriteAnswers : InsertSettles(a)
  \/ \E r \in Inbound : PostBatch(r)
  \/ \E k \in DOMAIN results, a \in InsertAnswers : EntrySettles(k, a)
  \/ BatchCompose
  \/ Recycle

Spec == Init /\ [][Next]_vars

\* ----------------------------------------------------------------- claims

IsRequest(m, p) == request.method = m /\ request.path = p

\* the request is a batch write whose body is a JSON object with an array
BatchOfArray ==
  /\ IsRequest("POST", "/logs/batch")
  /\ request.body.json = "object"
  /\ request.body.logs.kind = "array"

Sent == Len(request.body.logs.items)

\* the creates the backend completed with a success status, and the others
Succeeded ==
  {k \in DOMAIN answers :
     answers[k].delivered /\ answers[k].status \in 200..299}
Failed == DOMAIN answers \ Succeeded

\* C1: a batch of N entries, 1 <= N <= 100, is answered 201 with total = N,
\* saved = the number of creates that succeeded, failed = the number that
\* failed, so saved + failed = N, whichever entries failed
C1_BatchCounts ==
  (pc = "done" /\ BatchOfArray /\ Sent >= 1 /\ Sent <= BATCH_LIMIT) =>
    /\ response.status = 201
    /\ response.body.kind = "batch"
    /\ response.body.total = Sent
    /\ response.body.saved = Cardinality(Succeeded)
    /\ response.body.failed = Cardinality(Failed)
    /\ response.body.saved + response.body.failed = Sent

C1_Witness ==
  /\ pc = "done" /\ BatchOfArray /\ Sent = BATCH_LIMIT
  /\ response.status = 201
  /\ response.body.saved = 1
  /\ response.body.failed = BATCH_LIMIT - 1

\* C2: of a batch of N > 100 entries, the entries at positions 0..99 get a
\* create request each (exactly 100 requests, the k-th for position k - 1),
\* no entry at a position >= 100 gets one, and the response reports
\* total = 100
C2_Truncation ==
  (pc \in {"batch", "done"} /\ BatchOfArray /\ Sent > BATCH_LIMIT) =>
    /\ Len(outbound) = BATCH_LIMIT
    /\ \A k \in 1..BATCH_LIMIT :
         /\ outbound[k].op = "create"
         /\ outbound[k].pos = k - 1
         /\ outbound[k].pos < BATCH_LIMIT
    /\ pc = "done" => response.body.kind = "batch" /\ response.body.total = BATCH_LIMIT

C2_Witness ==
  /\ pc = "done" /\ BatchOfArray /\ Sent = BATCH_LIMIT + MaxExcess
  /\ response.body.total = BATCH_LIMIT

\* C10: the batch response is composed only once every retained entry's
\* create has settled; an entry's failure neither cancels nor repeats another
\* entry's request (each retained entry has exactly one create request, and
\* each has been answered by the time of the response); the counts are those
\* of the backend's answers, whatever the order of completion
C10_JoinAll ==
  (pc \in {"batch", "done"} /\ BatchOfArray) =>
    /\ Len(outbound) = (IF Sent < BATCH_LIMIT THEN Sent ELSE BATCH_LIMIT)
    /\ \A k \in DOMAIN outbound :
         outbound[k].op = "create" /\ outbound[k].pos = k - 1
    /\ pc = "done" =>
         /\ \A k \in DOMAIN outbound :
              results[k] # "pending" /\ answers[k] # Unanswered
         /\ \A k \in DOMAIN outbound :
              results[k] = (IF k \in Succeeded THEN "fulfilled" ELSE "rejected")
         /\ response.body.saved = Cardinality(Succeeded)
         /\ response.body.failed = Len(outbound) - Cardinality(Succeeded)

C10_Witness ==
  /\ pc = "done" /\ BatchOfArray /\ Sent = MaxInterleaved
  /\ results[1] = "rejected"
  /\ \A k \in 2..Sent : results[k] = "fulfilled"
  /\ response.body.saved = Sent - 1

\* the request is a batch write whose body is a JSON object
BatchOfObject == IsRequest("POST", "/logs/batch") /\ request.body.json = "object"

NoLogsArray == request.body.logs.kind # "array"
EmptyLogsArray == request.body.logs.kind = "array" /\ Sent = 0

\* C3 as stated: in both variants a batch whose `logs` is absent, no array or
\* an empty array is answered 400 and issues no create request
C3_Original ==
  (BatchOfObject /\ (NoLogsArray \/ EmptyLogsArray)) =>
    /\ outbound = <<>>
    /\ pc = "done" => response.status = 400

\* C3 amended: a batch whose `logs` is absent or no array is answered 400 in
\* both variants; an empty array is answered 400 by part_000 and 201 with
\* total = saved = failed = 0 by worker.js; no create request is issued in
\* any of these cases
C3_Amended ==
  (BatchOfObject /\ (NoLogsArray \/ EmptyLogsArray)) =>
    /\ outbound = <<>>
    /\ pc = "done" =>
         IF NoLogsArray \/ impl = "part_000"
         THEN response.status = 400 /\ response.body.kind = "error"
         ELSE /\ response.status = 201
              /\ response.body.kind = "batch"
              /\ response.body.total = 0
              /\ response.body.saved = 0
              /\ response.body.failed = 0

C3_Witness ==
  /\ pc = "done" /\ BatchOfObject /\ EmptyLogsArray
  /\ impl = "part_000"
  /\ response.status = 400

\* the request is a single write whose body is a JSON object
LogOfObject == IsRequest("POST", "/logs") /\ request.body.json = "object"

Incomplete(e) ==
  e.level \in {"absent", "empty"} \/ e.message \in {"absent", "empty"}

\* C4: a single write whose `level` or `message` is absent or empty is
\* answered 400 with an error body, and no backend request is issued at any
\* point of its handling
C4_RejectedBeforeBackend ==
  (LogOfObject /\ Incomplete(request.body)) =>
    /\ outbound = <<>>
    /\ pc = "done"
    /\ response.status = 400
    /\ response.body.kind = "error"

C4_Witness ==
  /\ pc = "done" /\ LogOfObject
  /\ request.body.level = "text" /\ request.body.message = "empty"
  /\ response.status = 400
  /\ outbound = <<>>

\* C5 as stated: no create request is ever sent for an entry whose `level`
\* or `message` is absent or empty, in a single write or in a batch
C5_NoCreateForIncomplete ==
  \A k \in DOMAIN outbound :
    outbound[k].op = "create" => ~Incomplete(outbound[k])

Handled == {<<"GET", "/health">>, <<"GET", "/logs">>, <<"POST", "/logs">>,
            <<"POST", "/logs/batch">>}

HasHeader(name, value) == <<name, value>> \in response.headers

\* the three headers both variants define
CommonCors ==
  /\ HasHeader("Access-Control-Allow-Origin", "*")
  /\ HasHeader("Access-Control-Allow-Methods", "GET, POST, OPTIONS")
  /\ HasHeader("Access-Control-Allow-Headers", "Content-Type, Authorization")

IsNotFound ==
  /\ response.status = 404
  /\ response.body.kind = "Not Found"
  /\ CommonCors
  /\ outbound = <<>>

\* C6 as stated: in both variants only the four method+path pairs reach a
\* handler; every other pair of a method that is not OPTIONS is answered 404
\* "Not Found" with the cross-origin headers and no backend request
C6_Original ==
  (pc = "done" /\ request.method # "OPTIONS") =>
    IF <<request.method, request.path>> \in Handled
    THEN response.status # 404
    ELSE IsNotFound

\* C6 amended: part_000 dispatches by the four exact method+path pairs;
\* worker.js dispatches /health by path alone (any method but OPTIONS gets
\* the health response) and the three other pairs exactly; every other pair
\* is answered 404 "Not Found" with the cross-origin headers and no backend
\* request
C6_Amended ==
  (pc = "done" /\ request.method # "OPTIONS") =>
    IF \/ <<request.method, request.path>> \in Handled
       \/ impl = "worker.js" /\ request.path = "/health"
    THEN /\ response.status # 404
         /\ request.path = "/health" =>
              response.status = 200 /\ response.body.kind = "health"
    ELSE IsNotFound

C6_Witness ==
  /\ pc = "done" /\ impl = "worker.js"
  /\ IsRequest("DELETE", "/health")
  /\ response.status = 200

HasMaxAge == \E h \in response.headers : h[1] = "Access-Control-Max-Age"

\* C7 as stated: every response of either variant carries allow-origin *,
\* allow-methods, allow-headers and a max-age
C7_Original == pc = "done" => CommonCors /\ HasMaxAge

\* C7 amended: every response of either variant carries allow-origin *,
\* allow-methods `GET, POST, OPTIONS` and allow-headers `Content-Type,
\* Authorization`; every response of worker.js also carries max-age 86400,
\* and no response of part_000 carries a max-age
C7_Amended ==
  pc = "done" =>
    /\ CommonCors
    /\ IF impl = "worker.js"
       THEN HasHeader("Access-Control-Max-Age", "86400")
       ELSE ~HasMaxAge

C7_Witness ==
  /\ pc = "done" /\ impl = "part_000"
  /\ response.status = 500
  /\ CommonCors /\ ~HasMaxAge

\* the backend answered the read or the single write with a status that is
\* no success
RelayFailure ==
  /\ IsRequest("GET", "/logs") \/ IsRequest("POST", "/logs")
  /\ Len(answers) = 1
  /\ answers[1].delivered
  /\ answers[1].status \notin 200..299

\* C8: when the backend answers a read or a single write with a status that
\* is no success, the caller gets a response (the error does not escape), its
\* status is 500, and its body is {error: message} with the backend's status
\* in the message
C8_RelayIs500 ==
  (pc = "done" /\ RelayFailure) =>
    /\ response.status = 500
    /\ response.body.kind = "error"
    /\ \E c \in DOMAIN response.body.error.codes :
         response.body.error.codes[c] = answers[1].status

C8_Witness ==
  /\ pc = "done" /\ IsRequest("POST", "/logs")
  /\ answers = <<Delivered(401)>>
  /\ response.status = 500

\* a text that writes an integer in decimal: an optional minus sign, then
\* digits and nothing else
IsIntegerText(t) ==
  LET first == IF Len(t) > 0 /\ t[1] = "-" THEN 2 ELSE 1
  IN /\ first <= Len(t)
     /\ \A k \in first..Len(t) : t[k] \in Digits

RECURSIVE Pow10(_)
Pow10(n) == IF n = 0 THEN 1 ELSE 10 * Pow10(n - 1)

RECURSIVE PlaceSum(_, _)
\* the digits of t from position k on, each weighted by its place
PlaceSum(t, k) ==
  IF k > Len(t) THEN 0
  ELSE DigitVal(t[k]) * Pow10(Len(t) - k) + PlaceSum(t, k + 1)

\* the integer an integer text writes
IntegerOf(t) == IF t[1] = "-" THEN 0 - PlaceSum(t, 2) ELSE PlaceSum(t, 1)

Capped(v) == IF v > MAX_LIMIT THEN MAX_LIMIT ELSE v

ReadIssued ==
  /\ pc \in {"read", "done"}
  /\ IsRequest("GET", "/logs")

\* C9 as stated: in both variants the one read query carries the requested
\* limit when it is an integer (at most 500) and 100 when it is absent, and a
\* limit never above 500; it carries the requested offset, 0 when absent
C9_Original ==
  ReadIssued =>
    LET l == request.query.limit
        o == request.query.offset
        sent == outbound[1]
    IN /\ Len(outbound) = 1 /\ sent.op = "read"
       /\ sent.limit <= MAX_LIMIT
       /\ ~l.present => sent.limit = DEFAULT_LIMIT
       /\ (l.present /\ IsIntegerText(l.text)) =>
            sent.limit = Capped(IntegerOf(l.text))
       /\ sent.hasOffset
       /\ ~o.present => sent.offset = 0
       /\ (o.present /\ IsIntegerText(o.text)) =>
            sent.offset = IntegerOf(o.text)

\* C9 amended: in both variants the one read query carries a limit never
\* above 500: the requested limit, capped at 500, when it is an integer other
\* than 0, and 100 when it is absent or 0.  part_000 carries an offset equal
\* to the requested integer offset, 0 when absent; worker.js does not read
\* `offset` and sends no offset
C9_Amended ==
  ReadIssued =>
    LET l == request.query.limit
        o == request.query.offset
        sent == outbound[1]
    IN /\ Len(outbound) = 1 /\ sent.op = "read"
       /\ sent.limit <= MAX_LIMIT
       /\ ~l.present => sent.limit = DEFAULT_LIMIT
       /\ (l.present /\ IsIntegerText(l.text)) =>
            sent.limit = (IF IntegerOf(l.text) = 0 THEN DEFAULT_LIMIT
                          ELSE Capped(IntegerOf(l.text)))
       /\ sent.hasOffset <=> impl = "part_000"
       /\ impl = "part_000" =>
            /\ ~o.present => sent.offset = 0
            /\ (o.present /\ IsIntegerText(o.text)) =>
                 sent.offset = IntegerOf(o.text)

C9_Witness ==
  /\ ReadIssued
  /\ request.query.limit = Param(<<"1", "0", "0", "0">>)
  /\ outbound[1].limit = MAX_LIMIT

====
